---------------------------- MODULE Spec2Model ----------------------------
(***************************************************************************)
(* A model of the data structures of                                       *)
(* src/input/1_Programming_Languages/Rust/data_structures.rs:              *)
(*   BST            the height-balanced binary search tree (l. 406-629)    *)
(*   LockFreeQueue  the Michael-Scott style queue on atomics (l. 133-255)  *)
(*   FastVec        the growable buffer on a raw block (l. 16-131)         *)
(* Each structure has its own specification (SpecBST, SpecQueue, ...): the *)
(* variables of the other structures stay at their initial values.         *)
(***************************************************************************)
EXTENDS Integers, Sequences, FiniteSets, TLC

VARIABLES
    \* ---- BST (struct BST, l. 408-411) ----
    root,        \* BST::root : Option<Box<BSTNode>>
    bst_size,    \* BST::size : usize
    bst_last,    \* the last completed call: its name, argument, result, and
                 \* the tree and size it started from
    bst_panic,   \* TRUE once a call has panicked; the tree is not used after
    demo,        \* run_data_structures_demo, part 3: the number of values
                 \* inserted so far and the value removed (0: none yet)
    \* ---- LockFreeQueue (struct LockFreeQueue, l. 151-155) ----
    heap,        \* the heap cells that hold the queue's Node values:
                 \* cell -> [data, next, enq_val]; enq_val is history, the
                 \* payload the node was created with
    live,        \* the cells that are allocated and not yet freed
    q_head,      \* LockFreeQueue::head : AtomicPtr<Node>
    q_tail,      \* LockFreeQueue::tail : AtomicPtr<Node>
    q_size,      \* LockFreeQueue::size : AtomicUsize
    thr,         \* per thread: the place in enqueue/dequeue (pc) and the
                 \* locals new_node, tail, next, head, data
    q_mode,      \* which threads may call what: "mpmc", "spsc" or "drain"
    q_calls,     \* history: the numbers of enqueue and dequeue calls begun
                 \* and whether sequential draining has begun
    q_ret,       \* history: the results of the completed dequeue calls
    q_saw_empty, \* history, per thread in dequeue: the queue was logically
                 \* empty at some point since the call began
    q_ub,        \* history: a freed cell was dereferenced (uaf), a cell was
                 \* freed twice (double_free), the process crashed
    q_order,     \* history: the payloads in the order their link CAS
                 \* succeeded (linked), the results of the dequeues in the
                 \* order their head CAS succeeded (advanced), and the
                 \* payloads taken by an attempt whose head CAS then failed
                 \* (dropped)
    \* ---- FastVec (struct FastVec, l. 16-21) ----
    fv_ptr,      \* FastVec::ptr: the block in use, named by the number of
                 \* the allocation that returned it (Dangling: no block)
    fv_len,      \* FastVec::len
    fv_cap,      \* FastVec::capacity
    fv_buf,      \* the slots of the block in use: slot i of the source is
                 \* fv_buf[i + 1]; Uninit for memory never written
    fv_heap,     \* the allocator: the number of blocks handed out so far
                 \* (allocs), the blocks given back (freed), and whether a
                 \* block was given back twice (double_free)
    fv_last,     \* the last call: its name, argument, result, whether it
                 \* panicked, and ptr, len, capacity and the slots before it
    fv_log,      \* history: the completed push and pop calls, in order
    fv_dropped,  \* history: the elements the destructor has destroyed with
                 \* drop_in_place, in order
    \* ---- the build ----
    overflow_checks, \* TRUE: arithmetic overflow panics (the debug profile);
                     \* FALSE: it wraps (the release profile). Fixed by Init.
    weak_cas_fails   \* TRUE: compare_exchange_weak may fail although the
                     \* comparison succeeds (an LL/SC target); FALSE: it
                     \* never does (a cmpxchg target). Fixed by Init.

bstVars == <<root, bst_size, bst_last, bst_panic, demo>>

queueVars == <<heap, live, q_head, q_tail, q_size, thr, q_mode, q_calls,
               q_ret, q_saw_empty, q_ub, q_order>>

vecVars == <<fv_ptr, fv_len, fv_cap, fv_buf, fv_heap, fv_last, fv_log,
             fv_dropped>>

buildVars == <<overflow_checks, weak_cas_fails>>

vars == <<bstVars, queueVars, vecVars, buildVars>>

(***************************************************************************)
(* usize counters.  A usize counter is kept as an integer congruent to it  *)
(* modulo 2^64 and small in absolute value: 0 - 1 wraps to usize::MAX,     *)
(* which is written -1, usize::MAX - 1 is written -2, and so on.  No       *)
(* counter of the model moves more than a few steps away from 0, so the    *)
(* representation is exact: x is the usize 0 iff x = 0, and a negative x   *)
(* is a value above 2^63.                                                  *)
(***************************************************************************)
wrapping_add(x, d) == x + d
wrapping_sub(x, d) == x - d
\* x - d leaves the range of usize (x is below d as a usize).
sub_overflows(x, d) == x >= 0 /\ x < d

Max(a, b) == IF a >= b THEN a ELSE b

(***************************************************************************)
(* FastVec                                                                 *)
(*                                                                         *)
(* One buffer, used by one thread.  alloc() returns a fresh block or null; *)
(* NonNull::new(ptr).unwrap() panics on null.  The sizes of the model are  *)
(* far from usize::MAX, so `capacity * 2` and `len += 1` do not overflow   *)
(* and Layout::array does not fail.                                        *)
(***************************************************************************)

\* Bounds of the FastVec model: the elements pushed are 1..MaxElem, the
\* buffer is made by new() or by with_capacity(n) with n up to MaxInitCap,
\* and at most MaxOps push and pop calls are made in one run.
MaxElem == 2
MaxInitCap == 2
MaxOps == 6

Elems == 1 .. MaxElem

\* Option::None as the result of pop and get (l. 62, 77); NonNull::dangling()
\* (l. 26); a slot of a block that was never written (alloc, l. 39, 97).
NoElem == 0
Dangling == 0
Uninit == -1

NoVecCall == [op |-> "none", arg |-> 0, res |-> NoElem, panicked |-> FALSE,
              pre_ptr |-> Dangling, pre_len |-> 0, pre_cap |-> 0,
              pre_buf |-> <<>>]

\* What the call that begins in this state records of the state.
VecCall(op, arg, res, panicked) ==
    [op |-> op, arg |-> arg, res |-> res, panicked |-> panicked,
     pre_ptr |-> fv_ptr, pre_len |-> fv_len, pre_cap |-> fv_cap,
     pre_buf |-> fv_buf]

\* FastVec::new (l. 24-31): no allocation.
FastVec_new ==
    /\ fv_ptr = Dangling
    /\ fv_len = 0
    /\ fv_cap = 0
    /\ fv_buf = <<>>
    /\ fv_heap = [allocs |-> 0, freed |-> {}, double_free |-> FALSE]
    /\ fv_last = NoVecCall
    /\ fv_log = <<>>
    /\ fv_dropped = <<>>

\* FastVec::with_capacity (l. 33-47): new() for 0, else one block of
\* `capacity` slots.
FastVec_with_capacity(capacity) ==
    IF capacity = 0 THEN FastVec_new
    ELSE /\ fv_ptr = 1
         /\ fv_len = 0
         /\ fv_cap = capacity
         /\ fv_buf = [i \in 1 .. capacity |-> Uninit]
         /\ fv_heap = [allocs |-> 1, freed |-> {}, double_free |-> FALSE]
         /\ fv_last = NoVecCall
         /\ fv_log = <<>>
         /\ fv_dropped = <<>>

\* dealloc(ptr, layout) (l. 109, 128): the block goes back to the
\* allocator.
dealloc(h, p) ==
    [h EXCEPT !.freed = @ \cup {p}, !.double_free = @ \/ p \in h.freed]

\* What a read of slot i of block p gives (l. 66, 76, 103): the slot of the
\* block in use, and no element once the block has been given back.
read_slot(h, p, i) == IF p \in h.freed THEN Uninit ELSE fv_buf[i]

\* grow as it would be without the copy_nonoverlapping of l. 102-106.
grow_without_copy ==
    LET new_capacity == IF fv_cap = 0 THEN 4 ELSE fv_cap * 2
        new_ptr == fv_heap.allocs + 1
    IN [ptr |-> new_ptr,
        capacity |-> new_capacity,
        buf |-> [i \in 1 .. new_capacity |-> Uninit],
        heap |-> IF fv_cap > 0
                 THEN dealloc([fv_heap EXCEPT !.allocs = new_ptr], fv_ptr)
                 ELSE [fv_heap EXCEPT !.allocs = new_ptr]]

\* grow as it would be with new_capacity = max(4, capacity * 2).
grow_max4 ==
    LET new_capacity == Max(4, fv_cap * 2)
        new_ptr == fv_heap.allocs + 1
    IN [ptr |-> new_ptr,
        capacity |-> new_capacity,
        buf |-> [i \in 1 .. new_capacity |->
                    IF fv_cap > 0 /\ i <= fv_len THEN fv_buf[i] ELSE Uninit],
        heap |-> IF fv_cap > 0
                 THEN dealloc([fv_heap EXCEPT !.allocs = new_ptr], fv_ptr)
                 ELSE [fv_heap EXCEPT !.allocs = new_ptr]]

\* grow as it would be with a fixed increment of 4 slots in place of the
\* doubling.
grow_adds_four ==
    LET new_capacity == fv_cap + 4
        new_ptr == fv_heap.allocs + 1
    IN [ptr |-> new_ptr,
        capacity |-> new_capacity,
        buf |-> [i \in 1 .. new_capacity |->
                    IF fv_cap > 0 /\ i <= fv_len THEN fv_buf[i] ELSE Uninit],
        heap |-> IF fv_cap > 0
                 THEN dealloc([fv_heap EXCEPT !.allocs = new_ptr], fv_ptr)
                 ELSE [fv_heap EXCEPT !.allocs = new_ptr]]

\* grow as it would be with the dealloc of l. 108-109 ahead of the copy of
\* l. 102-106: the copy reads a block that has been given back.
grow_frees_before_copy ==
    LET new_capacity == IF fv_cap = 0 THEN 4 ELSE fv_cap * 2
        new_ptr == fv_heap.allocs + 1
        allocated == [fv_heap EXCEPT !.allocs = new_ptr]
        released == IF fv_cap > 0 THEN dealloc(allocated, fv_ptr)
                    ELSE allocated
    IN [ptr |-> new_ptr,
        capacity |-> new_capacity,
        buf |-> [i \in 1 .. new_capacity |->
                    IF fv_cap > 0 /\ i <= fv_len
                    THEN read_slot(released, fv_ptr, i) ELSE Uninit],
        heap |-> released]

\* FastVec::grow (l. 93-115), once the new block is there: the new
\* capacity (l. 94), the new block (l. 97) with the first len elements read
\* from the old one (l. 102-106), and then the old block given back if
\* there was one (l. 108-109).
grow ==
    LET new_capacity == IF fv_cap = 0 THEN 4 ELSE fv_cap * 2
        new_ptr == fv_heap.allocs + 1
        allocated == [fv_heap EXCEPT !.allocs = new_ptr]
        released == IF fv_cap > 0 THEN dealloc(allocated, fv_ptr)
                    ELSE allocated
    IN [ptr |-> new_ptr,
        capacity |-> new_capacity,
        buf |-> [i \in 1 .. new_capacity |->
                    IF fv_cap > 0 /\ i <= fv_len
                    THEN read_slot(allocated, fv_ptr, i) ELSE Uninit],
        heap |-> released]

\* push as it would be without the `if self.len == self.capacity` of
\* l. 50-52: the write goes to slot len whatever the capacity.
push_without_grow(value) ==
    /\ fv_buf' = [i \in 1 .. Max(fv_cap, fv_len + 1) |->
                     IF i = fv_len + 1 THEN value
                     ELSE IF i <= fv_cap THEN fv_buf[i] ELSE Uninit]
    /\ fv_len' = fv_len + 1
    /\ fv_last' = VecCall("push", value, NoElem, FALSE)
    /\ fv_log' = Append(fv_log, [op |-> "push", val |-> value])
    /\ UNCHANGED <<fv_ptr, fv_cap, fv_heap>>

\* push as it would be if grow set the new capacity before it looked at
\* the pointer alloc returned.
push_fails_after_capacity(value) ==
    \E alloc_ok \in IF fv_len = fv_cap THEN BOOLEAN ELSE {TRUE} :
        IF ~alloc_ok
        THEN /\ fv_last' = VecCall("push", value, NoElem, TRUE)
             /\ fv_cap' = IF fv_cap = 0 THEN 4 ELSE fv_cap * 2
             /\ UNCHANGED <<fv_ptr, fv_len, fv_buf, fv_heap, fv_log>>
        ELSE LET g == IF fv_len = fv_cap THEN grow
                      ELSE [ptr |-> fv_ptr, capacity |-> fv_cap,
                            buf |-> fv_buf, heap |-> fv_heap]
             IN /\ fv_ptr' = g.ptr
                /\ fv_cap' = g.capacity
                /\ fv_heap' = g.heap
                /\ fv_buf' = [g.buf EXCEPT ![fv_len + 1] = value]
                /\ fv_len' = fv_len + 1
                /\ fv_last' = VecCall("push", value, NoElem, FALSE)
                /\ fv_log' = Append(fv_log, [op |-> "push", val |-> value])

\* FastVec::push (l. 49-58).  When len == capacity it grows first; if
\* alloc returns null, grow panics at l. 98 before it has changed anything.
FastVec_push(value) ==
    \E alloc_ok \in IF fv_len = fv_cap THEN BOOLEAN ELSE {TRUE} :
        IF ~alloc_ok
        THEN /\ fv_last' = VecCall("push", value, NoElem, TRUE)
             /\ UNCHANGED <<fv_ptr, fv_len, fv_cap, fv_buf, fv_heap, fv_log>>
        ELSE LET g == IF fv_len = fv_cap THEN grow
                      ELSE [ptr |-> fv_ptr, capacity |-> fv_cap,
                            buf |-> fv_buf, heap |-> fv_heap]
             IN /\ fv_ptr' = g.ptr
                /\ fv_cap' = g.capacity
                /\ fv_heap' = g.heap
                /\ fv_buf' = [g.buf EXCEPT ![fv_len + 1] = value]
                /\ fv_len' = fv_len + 1
                /\ fv_last' = VecCall("push", value, NoElem, FALSE)
                /\ fv_log' = Append(fv_log, [op |-> "push", val |-> value])

\* pop as it would be if it gave back the unused part of the block: the
\* capacity follows the length.
pop_shrinks ==
    IF fv_len = 0
    THEN /\ fv_last' = VecCall("pop", 0, NoElem, FALSE)
         /\ fv_log' = Append(fv_log, [op |-> "pop", val |-> NoElem])
         /\ UNCHANGED <<fv_ptr, fv_len, fv_cap, fv_buf, fv_heap>>
    ELSE /\ fv_len' = fv_len - 1
         /\ fv_cap' = fv_len - 1
         /\ fv_buf' = SubSeq(fv_buf, 1, fv_len - 1)
         /\ fv_last' = VecCall("pop", 0, fv_buf[fv_len], FALSE)
         /\ fv_log' = Append(fv_log, [op |-> "pop", val |-> fv_buf[fv_len]])
         /\ UNCHANGED <<fv_ptr, fv_heap>>

\* pop as it would be if it read the first slot in place of the last.
pop_front ==
    IF fv_len = 0
    THEN /\ fv_last' = VecCall("pop", 0, NoElem, FALSE)
         /\ fv_log' = Append(fv_log, [op |-> "pop", val |-> NoElem])
         /\ UNCHANGED <<fv_ptr, fv_len, fv_cap, fv_buf, fv_heap>>
    ELSE /\ fv_len' = fv_len - 1
         /\ fv_last' = VecCall("pop", 0, fv_buf[1], FALSE)
         /\ fv_log' = Append(fv_log, [op |-> "pop", val |-> fv_buf[1]])
         /\ UNCHANGED <<fv_ptr, fv_cap, fv_buf, fv_heap>>

\* FastVec::pop (l. 60-69): None when empty, else len -= 1 and the slot
\* at the new len is read (its bytes stay where they are).
FastVec_pop ==
    IF fv_len = 0
    THEN /\ fv_last' = VecCall("pop", 0, NoElem, FALSE)
         /\ fv_log' = Append(fv_log, [op |-> "pop", val |-> NoElem])
         /\ UNCHANGED <<fv_ptr, fv_len, fv_cap, fv_buf, fv_heap>>
    ELSE /\ fv_len' = fv_len - 1
         /\ fv_last' = VecCall("pop", 0, fv_buf[fv_len], FALSE)
         /\ fv_log' = Append(fv_log, [op |-> "pop", val |-> fv_buf[fv_len]])
         /\ UNCHANGED <<fv_ptr, fv_cap, fv_buf, fv_heap>>

\* get as it would be with the bound `index < self.capacity`.
get_within_capacity(index) ==
    /\ fv_last' = VecCall("get", index,
                          IF index < fv_cap THEN fv_buf[index + 1] ELSE NoElem,
                          FALSE)
    /\ UNCHANGED <<fv_ptr, fv_len, fv_cap, fv_buf, fv_heap, fv_log>>

\* FastVec::get (l. 71-79): the element at index if index < len, else None.
FastVec_get(index) ==
    /\ fv_last' = VecCall("get", index,
                          IF index < fv_len THEN fv_buf[index + 1] ELSE NoElem,
                          FALSE)
    /\ UNCHANGED <<fv_ptr, fv_len, fv_cap, fv_buf, fv_heap, fv_log>>

\* FastVec::len, FastVec::capacity, FastVec::is_empty (l. 81-91)
FastVec_len == fv_len
FastVec_capacity == fv_cap
FastVec_is_empty == fv_len = 0

\* drop as it would be if it destroyed every slot of the block.
drop_all_slots ==
    /\ fv_last' = VecCall("drop", 0, NoElem, FALSE)
    /\ IF fv_cap > 0
       THEN /\ fv_dropped' = fv_buf
            /\ fv_heap' = dealloc(fv_heap, fv_ptr)
       ELSE UNCHANGED <<fv_dropped, fv_heap>>
    /\ UNCHANGED <<fv_ptr, fv_len, fv_cap, fv_buf, fv_log>>

\* Drop for FastVec (l. 118-131): with a block, drop_in_place on the slots
\* 0..len-1, then dealloc of the block; without one, nothing.  The buffer
\* is not used after it.
FastVec_drop ==
    /\ fv_last' = VecCall("drop", 0, NoElem, FALSE)
    /\ IF fv_cap > 0
       THEN /\ fv_dropped' = SubSeq(fv_buf, 1, fv_len)
            /\ fv_heap' = dealloc(fv_heap, fv_ptr)
       ELSE UNCHANGED <<fv_dropped, fv_heap>>
    /\ UNCHANGED <<fv_ptr, fv_len, fv_cap, fv_buf, fv_log>>

\* The buffer has not been dropped.
Alive == fv_last.op # "drop"

(***************************************************************************)
(* LockFreeQueue                                                           *)
(*                                                                         *)
(* Every step of a thread is one access to shared memory (head, tail,      *)
(* size, a field of a heap cell, the allocator) together with the local    *)
(* computation that follows it.  Memory is sequentially consistent.        *)
(* Box::new takes any cell that is not allocated, so a freed cell can come *)
(* back as a new node.  Dereferencing a freed cell is undefined behaviour: *)
(* the load returns any pointer (or any payload), or the process crashes.  *)
(***************************************************************************)

\* Bounds of the queue model: the number of threads, of heap cells, and of
\* enqueue and dequeue calls made in one run.
NumThreads == 2
NumCells == 3
MaxEnq == 2
MaxDeq == 3

Threads == 1 .. NumThreads
NodeIds == 1 .. NumCells

\* std::ptr::null_mut() (l. 146), and the payload Option::None (l. 159);
\* the payloads enqueued are 1, 2, ... in the order of the calls.
Null == 0
NoData == 0
Payloads == 1 .. MaxEnq

\* The locals of a thread that is in no call.
Idle == [pc |-> "idle", new_node |-> Null, tail |-> Null, next |-> Null,
         head |-> Null, data |-> NoData, won |-> NoData]

EnqueuePcs == {"e_load_tail", "e_load_next", "e_check_tail", "e_cas_next",
               "e_help_tail", "e_load_tail2", "e_cas_tail", "e_inc_size"}
DequeuePcs == {"d_load_head", "d_load_tail", "d_load_next", "d_check_head",
               "d_help_tail", "d_take_read", "d_take_write", "d_cas_head",
               "d_free", "d_dec_size"}

\* LockFreeQueue::new (l. 158-166): one dummy node, head = tail = dummy.
LockFreeQueue_new(mode) ==
    /\ heap = [c \in NodeIds |-> [data |-> NoData, next |-> Null,
                                  enq_val |-> NoData]]
    /\ live = {1}
    /\ q_head = 1
    /\ q_tail = 1
    /\ q_size = 0
    /\ thr = [t \in Threads |-> Idle]
    /\ q_mode = mode
    /\ q_calls = [enq |-> 0, deq |-> 0, draining |-> FALSE, alone |-> 0]
    /\ q_ret = <<>>
    /\ q_saw_empty = [t \in Threads |-> FALSE]
    /\ q_ub = [uaf |-> FALSE, double_free |-> FALSE, crashed |-> FALSE]
    /\ q_order = [linked |-> <<>>, advanced |-> <<>>, dropped |-> {}]

\* head == tail and head.next is null.
LogicallyEmpty == q_head = q_tail /\ heap[q_head].next = Null

\* What a load of (*c).next and of (*c).data can return.
LoadNext(c) == IF c \in live THEN {heap[c].next} ELSE NodeIds \cup {Null}
LoadData(c) == IF c \in live THEN {heap[c].data} ELSE Payloads \cup {NoData}
\* Whether an access to cell c can crash the process.
MayCrash(c) == IF c \in live THEN {FALSE} ELSE BOOLEAN

\* compare_exchange_weak: fails when the value differs, and may fail when
\* it does not (on a target where it can fail spuriously).
CasOutcomes(actual, expected) ==
    IF actual # expected THEN {FALSE}
    ELSE IF weak_cas_fails THEN BOOLEAN ELSE {TRUE}

\* Thread t is at p and is scheduled: the process has not crashed, and no
\* other thread is running a call alone.
At(t, p) == ~q_ub.crashed /\ thr[t].pc = p /\ q_calls.alone \in {0, t}

\* The bookkeeping of an access to cell c.
Deref(c, crash) ==
    q_ub' = [q_ub EXCEPT !.uaf = @ \/ c \notin live, !.crashed = crash]

\* Back to the top of the loop: the locals of the last round are dead.
EnqueueRetry(l) == [l EXCEPT !.pc = "e_load_tail", !.tail = Null, !.next = Null]
DequeueRetry(l) == [Idle EXCEPT !.pc = "d_load_head"]

\* ---- enqueue (l. 168-204) ----

\* l. 169: Box::into_raw(Box::new(Node::new(Some(data))))
enqueue_alloc(t) ==
    /\ At(t, "idle")
    /\ \E c \in NodeIds \ live :
         LET v == q_calls.enq + 1
         IN /\ heap' = [heap EXCEPT
                           ![c] = [data |-> v, next |-> Null, enq_val |-> v]]
            /\ live' = live \cup {c}
            /\ thr' = [thr EXCEPT ![t] = [Idle EXCEPT !.pc = "e_load_tail",
                                                      !.new_node = c]]
    /\ q_calls' = [q_calls EXCEPT !.enq = @ + 1]
    /\ UNCHANGED <<q_head, q_tail, q_size, q_mode, q_ret, q_ub, q_order>>

\* l. 172: let tail = self.tail.load(Acquire)
enqueue_load_tail(t) ==
    /\ At(t, "e_load_tail")
    /\ thr' = [thr EXCEPT ![t].tail = q_tail, ![t].pc = "e_load_next"]
    /\ UNCHANGED <<heap, live, q_head, q_tail, q_size, q_mode, q_calls,
                   q_ret, q_ub, q_order>>

\* l. 173: let next = (*tail).next.load(Acquire)
enqueue_load_next(t) ==
    /\ At(t, "e_load_next")
    /\ LET c == thr[t].tail
       IN \E crash \in MayCrash(c), nx \in LoadNext(c) :
            /\ Deref(c, crash)
            /\ thr' = IF crash THEN thr
                      ELSE [thr EXCEPT ![t].next = nx,
                                       ![t].pc = "e_check_tail"]
    /\ UNCHANGED <<heap, live, q_head, q_tail, q_size, q_mode, q_calls,
                   q_ret, q_order>>

\* l. 175-176, 185: if tail == self.tail.load() { if next.is_null() ... }
enqueue_check_tail(t) ==
    /\ At(t, "e_check_tail")
    /\ thr' = [thr EXCEPT ![t] =
                 IF thr[t].tail # q_tail THEN EnqueueRetry(@)
                 ELSE IF thr[t].next = Null THEN [@ EXCEPT !.pc = "e_cas_next"]
                 ELSE [@ EXCEPT !.pc = "e_help_tail"]]
    /\ UNCHANGED <<heap, live, q_head, q_tail, q_size, q_mode, q_calls,
                   q_ret, q_ub, q_order>>

\* l. 177-184: (*tail).next.compare_exchange_weak(next, new_node); break
\* on success, else again from the top.
enqueue_cas_next(t) ==
    /\ At(t, "e_cas_next")
    /\ LET c == thr[t].tail
       IN \E crash \in MayCrash(c), actual \in LoadNext(c) :
          \E ok \in CasOutcomes(actual, thr[t].next) :
            /\ Deref(c, crash)
            /\ heap' = IF ok /\ ~crash
                       THEN [heap EXCEPT ![c].next = thr[t].new_node]
                       ELSE heap
            /\ q_order' = IF ok /\ ~crash
                          THEN [q_order EXCEPT !.linked =
                                   Append(@, heap[thr[t].new_node].enq_val)]
                          ELSE q_order
            /\ thr' = IF crash THEN thr
                      ELSE IF ok
                      THEN [thr EXCEPT ![t].pc = "e_load_tail2",
                                       ![t].tail = Null, ![t].next = Null]
                      ELSE [thr EXCEPT ![t] = EnqueueRetry(@)]
    /\ UNCHANGED <<live, q_head, q_tail, q_size, q_mode, q_calls, q_ret>>

\* l. 186-191: self.tail.compare_exchange_weak(tail, next).ok()
enqueue_help_tail(t) ==
    /\ At(t, "e_help_tail")
    /\ \E ok \in CasOutcomes(q_tail, thr[t].tail) :
         q_tail' = IF ok THEN thr[t].next ELSE q_tail
    /\ thr' = [thr EXCEPT ![t] = EnqueueRetry(@)]
    /\ UNCHANGED <<heap, live, q_head, q_size, q_mode, q_calls, q_ret, q_ub,
                   q_order>>

\* l. 197: the argument self.tail.load(Acquire) of the last CAS
enqueue_load_tail2(t) ==
    /\ At(t, "e_load_tail2")
    /\ thr' = [thr EXCEPT ![t].tail = q_tail, ![t].pc = "e_cas_tail"]
    /\ UNCHANGED <<heap, live, q_head, q_tail, q_size, q_mode, q_calls,
                   q_ret, q_ub, q_order>>

\* l. 196-201: self.tail.compare_exchange_weak(<the tail just loaded>,
\* new_node).ok()
enqueue_cas_tail(t) ==
    /\ At(t, "e_cas_tail")
    /\ \E ok \in CasOutcomes(q_tail, thr[t].tail) :
         q_tail' = IF ok THEN thr[t].new_node ELSE q_tail
    /\ thr' = [thr EXCEPT ![t].pc = "e_inc_size", ![t].tail = Null]
    /\ UNCHANGED <<heap, live, q_head, q_size, q_mode, q_calls, q_ret, q_ub,
                   q_order>>

\* l. 203: self.size.fetch_add(1, Relaxed); the call returns.
enqueue_inc_size(t) ==
    /\ At(t, "e_inc_size")
    /\ q_size' = wrapping_add(q_size, 1)
    /\ thr' = [thr EXCEPT ![t] = Idle]
    /\ UNCHANGED <<heap, live, q_head, q_tail, q_mode, q_calls, q_ret, q_ub,
                   q_order>>

\* ---- dequeue (l. 206-246) ----

\* The call of dequeue.
dequeue_call(t) ==
    /\ At(t, "idle")
    /\ thr' = [thr EXCEPT ![t] = DequeueRetry(@)]
    /\ q_calls' = [q_calls EXCEPT !.deq = @ + 1,
                                  !.draining = (q_mode = "drain")]
    /\ UNCHANGED <<heap, live, q_head, q_tail, q_size, q_mode, q_ret, q_ub,
                   q_order>>

\* The call of a dequeue that runs alone: from here on no other thread
\* takes a step.
dequeue_call_alone(t) ==
    /\ At(t, "idle")
    /\ q_calls.alone = 0
    /\ thr' = [thr EXCEPT ![t] = DequeueRetry(@)]
    /\ q_calls' = [q_calls EXCEPT !.deq = @ + 1,
                                  !.draining = (q_mode = "drain"),
                                  !.alone = t]
    /\ UNCHANGED <<heap, live, q_head, q_tail, q_size, q_mode, q_ret, q_ub,
                   q_order>>

\* l. 208: let head = self.head.load(Acquire)
dequeue_load_head(t) ==
    /\ At(t, "d_load_head")
    /\ thr' = [thr EXCEPT ![t].head = q_head, ![t].pc = "d_load_tail"]
    /\ UNCHANGED <<heap, live, q_head, q_tail, q_size, q_mode, q_calls,
                   q_ret, q_ub, q_order>>

\* l. 209: let tail = self.tail.load(Acquire)
dequeue_load_tail(t) ==
    /\ At(t, "d_load_tail")
    /\ thr' = [thr EXCEPT ![t].tail = q_tail, ![t].pc = "d_load_next"]
    /\ UNCHANGED <<heap, live, q_head, q_tail, q_size, q_mode, q_calls,
                   q_ret, q_ub, q_order>>

\* l. 210: let next = (*head).next.load(Acquire)
dequeue_load_next(t) ==
    /\ At(t, "d_load_next")
    /\ LET c == thr[t].head
       IN \E crash \in MayCrash(c), nx \in LoadNext(c) :
            /\ Deref(c, crash)
            /\ thr' = IF crash THEN thr
                      ELSE [thr EXCEPT ![t].next = nx,
                                       ![t].pc = "d_check_head"]
    /\ UNCHANGED <<heap, live, q_head, q_tail, q_size, q_mode, q_calls,
                   q_ret, q_order>>

\* The record of a completed dequeue call: the value returned (NoData for
\* None), the way out ("empty": l. 215, "cas": l. 241), whether the queue
\* was logically empty at some point of the call, and for "cas" the payload
\* the node that became the head was created with.
Returned(t, v, how) ==
    [thread |-> t, val |-> v, how |-> how, saw_empty |-> q_saw_empty[t],
     new_head_val |-> thr[t].won]

\* l. 212-227: if head == self.head.load() { if head == tail { if
\* next.is_null() { return None } .. } else { if next.is_null() { continue }
\* .. } }
dequeue_check_head(t) ==
    /\ At(t, "d_check_head")
    /\ LET l == thr[t]
           empty == l.head = q_head /\ l.head = l.tail /\ l.next = Null
       IN /\ thr' = [thr EXCEPT ![t] =
                       IF l.head # q_head THEN DequeueRetry(@)
                       ELSE IF l.head = l.tail
                       THEN IF l.next = Null THEN Idle
                            ELSE [@ EXCEPT !.pc = "d_help_tail"]
                       ELSE IF l.next = Null THEN DequeueRetry(@)
                       ELSE [@ EXCEPT !.pc = "d_take_read"]]
          /\ q_ret' = IF empty THEN Append(q_ret, Returned(t, NoData, "empty"))
                      ELSE q_ret
    /\ UNCHANGED <<heap, live, q_head, q_tail, q_size, q_mode, q_calls, q_ub,
                   q_order>>

\* l. 218-223: self.tail.compare_exchange_weak(tail, next).ok()
dequeue_help_tail(t) ==
    /\ At(t, "d_help_tail")
    /\ \E ok \in CasOutcomes(q_tail, thr[t].tail) :
         q_tail' = IF ok THEN thr[t].next ELSE q_tail
    /\ thr' = [thr EXCEPT ![t] = DequeueRetry(@)]
    /\ UNCHANGED <<heap, live, q_head, q_size, q_mode, q_calls, q_ret, q_ub,
                   q_order>>

\* l. 229: let data = (*next).data.take()  -- the read of the payload.
\* Option::take is a plain read followed by a plain write of None.
dequeue_take_read(t) ==
    /\ At(t, "d_take_read")
    /\ LET c == thr[t].next
       IN \E crash \in MayCrash(c), d \in LoadData(c) :
            /\ Deref(c, crash)
            /\ thr' = IF crash THEN thr
                      ELSE [thr EXCEPT ![t].data = d,
                                       ![t].pc = "d_take_write"]
    /\ UNCHANGED <<heap, live, q_head, q_tail, q_size, q_mode, q_calls,
                   q_ret, q_order>>

\* l. 229: (*next).data.take()  -- the write of None.
dequeue_take_write(t) ==
    /\ At(t, "d_take_write")
    /\ LET c == thr[t].next
       IN \E crash \in MayCrash(c) :
            /\ Deref(c, crash)
            /\ heap' = IF crash THEN heap
                       ELSE [heap EXCEPT ![c].data = NoData]
            /\ thr' = IF crash THEN thr
                      ELSE [thr EXCEPT ![t].pc = "d_cas_head"]
    /\ UNCHANGED <<live, q_head, q_tail, q_size, q_mode, q_calls, q_ret,
                   q_order>>

\* l. 231-236: self.head.compare_exchange_weak(head, next); on failure the
\* payload taken is dropped and the loop starts again.
dequeue_cas_head(t) ==
    /\ At(t, "d_cas_head")
    /\ \E ok \in CasOutcomes(q_head, thr[t].head) :
         /\ q_head' = IF ok THEN thr[t].next ELSE q_head
         /\ q_order' = IF ok
                       THEN [q_order EXCEPT !.advanced = Append(@, thr[t].data)]
                       ELSE IF thr[t].data # NoData
                       THEN [q_order EXCEPT !.dropped = @ \cup {thr[t].data}]
                       ELSE q_order
         /\ thr' = [thr EXCEPT ![t] =
                      IF ok THEN [@ EXCEPT !.pc = "d_free",
                                           !.won = heap[thr[t].next].enq_val]
                      ELSE DequeueRetry(@)]
    /\ UNCHANGED <<heap, live, q_tail, q_size, q_mode, q_calls, q_ret, q_ub>>

\* l. 237-239: Box::from_raw(head), dropped at once: the old head is freed.
dequeue_free(t) ==
    /\ At(t, "d_free")
    /\ live' = live \ {thr[t].head}
    /\ q_ub' = [q_ub EXCEPT !.double_free = @ \/ thr[t].head \notin live]
    /\ thr' = [thr EXCEPT ![t].pc = "d_dec_size"]
    /\ UNCHANGED <<heap, q_head, q_tail, q_size, q_mode, q_calls, q_ret,
                   q_order>>

\* l. 240-241: self.size.fetch_sub(1, Relaxed); return data.  fetch_sub
\* wraps in every build.
dequeue_dec_size(t) ==
    /\ At(t, "d_dec_size")
    /\ q_size' = wrapping_sub(q_size, 1)
    /\ q_ret' = Append(q_ret, Returned(t, thr[t].data, "cas"))
    /\ thr' = [thr EXCEPT ![t] = Idle]
    /\ UNCHANGED <<heap, live, q_head, q_tail, q_mode, q_calls, q_ub,
                   q_order>>

\* ---- size and is_empty (l. 248-254) ----

\* l. 248-250: self.size.load(Relaxed)
LockFreeQueue_size == q_size

\* l. 252-254: self.size() == 0
LockFreeQueue_is_empty == LockFreeQueue_size = 0

\* ---- the threads ----

AllIdle == \A t \in Threads : thr[t].pc = "idle"

\* Which thread may call enqueue: any ("mpmc"), thread 1 ("spsc"), any
\* until the draining has begun ("drain").
MayEnqueue(t) ==
    /\ q_calls.enq < MaxEnq
    /\ \/ q_mode = "mpmc"
       \/ q_mode = "spsc" /\ t = 1
       \/ q_mode = "drain" /\ ~q_calls.draining

\* Which thread may call dequeue: any ("mpmc"), thread 2 ("spsc"), thread 1
\* once no call is in progress ("drain").
MayDequeue(t) ==
    /\ q_calls.deq < MaxDeq
    /\ \/ q_mode = "mpmc"
       \/ q_mode = "spsc" /\ t = 2
       \/ q_mode = "drain" /\ t = 1 /\ AllIdle

\* History: per thread in dequeue, whether the queue has been logically
\* empty in some state since the call.
SawEmptyUpdate ==
    q_saw_empty' =
        [t \in Threads |->
            IF thr'[t].pc \in DequeuePcs
            THEN \/ IF thr[t].pc \in DequeuePcs THEN q_saw_empty[t]
                    ELSE LogicallyEmpty
                 \/ LogicallyEmpty'
            ELSE FALSE]

\* What every step of the queue adds: the history of logical emptiness,
\* and the other structures left alone.
QueueStep == SawEmptyUpdate /\ UNCHANGED <<bstVars, vecVars, buildVars>>

NextQueue ==
    \E t \in Threads :
        \/ MayEnqueue(t) /\ enqueue_alloc(t) /\ QueueStep
        \/ enqueue_load_tail(t) /\ QueueStep
        \/ enqueue_load_next(t) /\ QueueStep
        \/ enqueue_check_tail(t) /\ QueueStep
        \/ enqueue_cas_next(t) /\ QueueStep
        \/ enqueue_help_tail(t) /\ QueueStep
        \/ enqueue_load_tail2(t) /\ QueueStep
        \/ enqueue_cas_tail(t) /\ QueueStep
        \/ enqueue_inc_size(t) /\ QueueStep
        \/ MayDequeue(t) /\ dequeue_call(t) /\ QueueStep
        \/ dequeue_load_head(t) /\ QueueStep
        \/ dequeue_load_tail(t) /\ QueueStep
        \/ dequeue_load_next(t) /\ QueueStep
        \/ dequeue_check_head(t) /\ QueueStep
        \/ dequeue_help_tail(t) /\ QueueStep
        \/ dequeue_take_read(t) /\ QueueStep
        \/ dequeue_take_write(t) /\ QueueStep
        \/ dequeue_cas_head(t) /\ QueueStep
        \/ dequeue_free(t) /\ QueueStep
        \/ dequeue_dec_size(t) /\ QueueStep

(***************************************************************************)
(* BST                                                                     *)
(***************************************************************************)

\* Bounds of the BST model: values are drawn from 1..MaxVal, insert is not
\* called once the tree holds MaxNodes nodes, and remove is not called once
\* the size counter has wrapped MaxWrap steps below 0.
MaxVal == 4
MaxNodes == 4
MaxWrap == 2

Values == 1 .. MaxVal

\* Option::None, an absent subtree.
None == <<>>

\* Some(Box::new(BSTNode { value, left, right, height }))
BSTNode(v, l, r, h) == [value |-> v, left |-> l, right |-> r, height |-> h]

get_height(node) == IF node = None THEN 0 ELSE node.height

get_balance(node) ==
    IF node = None THEN 0
    ELSE get_height(node.left) - get_height(node.right)

\* n.height = 1 + max(get_height(&n.left), get_height(&n.right))
update_height(n) ==
    [n EXCEPT !.height = 1 + Max(get_height(n.left), get_height(n.right))]

\* rotate_right as it would be without the first height assignment
\* (l. 576-579): the node that goes down keeps its cached height.
rotate_right_stale_height(node) ==
    IF node = None THEN None
    ELSE IF node.left = None THEN None
    ELSE LET left == node.left
             n1 == [node EXCEPT !.left = left.right]
         IN update_height([left EXCEPT !.right = n1])

\* rotate_right (l. 572-588) and rotate_left (l. 590-606).
\* node.take() empties the slot; it is refilled only inside the inner
\* `if let Some(left)`: a node without a left child leaves the slot empty.
rotate_right(node) ==
    IF node = None THEN None
    ELSE IF node.left = None THEN None
    ELSE LET left == node.left
             n1 == update_height([node EXCEPT !.left = left.right])
         IN update_height([left EXCEPT !.right = n1])

rotate_left(node) ==
    IF node = None THEN None
    ELSE IF node.right = None THEN None
    ELSE LET right == node.right
             n1 == update_height([node EXCEPT !.right = right.left])
         IN update_height([right EXCEPT !.left = n1])

\* balance_node as it would be without the inner rotations of l. 559-561
\* and 565-567: one rotation in every case.
balance_single_rotation(node) ==
    IF node = None THEN None
    ELSE LET balance == get_balance(node)
         IN IF balance > 1 THEN rotate_right(node)
            ELSE IF balance < -1 THEN rotate_left(node)
            ELSE node

\* balance_node (l. 554-570)
balance_node(node) ==
    IF node = None THEN None
    ELSE LET balance == get_balance(node)
         IN IF balance > 1
            THEN LET n1 == IF get_balance(node.left) < 0
                           THEN [node EXCEPT !.left = rotate_left(node.left)]
                           ELSE node
                 IN rotate_right(n1)
            ELSE IF balance < -1
            THEN LET n1 == IF get_balance(node.right) > 0
                           THEN [node EXCEPT !.right = rotate_right(node.right)]
                           ELSE node
                 IN rotate_left(n1)
            ELSE node

\* Which branch of balance_node (l. 558-568) a node takes.
balance_case(node) ==
    IF node = None THEN "none"
    ELSE LET balance == get_balance(node)
         IN IF balance > 1
            THEN IF get_balance(node.left) < 0 THEN "rotate_left_then_right"
                 ELSE "rotate_right"
            ELSE IF balance < -1
            THEN IF get_balance(node.right) > 0 THEN "rotate_right_then_left"
                 ELSE "rotate_left"
            ELSE "none"

\* insert_node and remove_node change the slot in place and return a bool:
\* here they return the new content of the slot (tree) and the bool (ok).
RECURSIVE insert_node(_, _)
insert_node(node, v) ==
    IF node = None
    THEN [tree |-> BSTNode(v, None, None, 1), ok |-> TRUE]
    ELSE IF v = node.value
    THEN [tree |-> node, ok |-> FALSE]
    ELSE LET sub == IF v < node.value THEN insert_node(node.left, v)
                    ELSE insert_node(node.right, v)
             n1 == IF v < node.value THEN [node EXCEPT !.left = sub.tree]
                   ELSE [node EXCEPT !.right = sub.tree]
         IN IF sub.ok
            THEN [tree |-> balance_node(update_height(n1)), ok |-> TRUE]
            ELSE [tree |-> n1, ok |-> FALSE]

RECURSIVE search_node(_, _)
search_node(node, v) ==
    IF node = None THEN FALSE
    ELSE IF v = node.value THEN TRUE
    ELSE IF v < node.value THEN search_node(node.left, v)
    ELSE search_node(node.right, v)

\* The value of the leftmost node of a subtree (the `while min_node.left`
\* walk of remove_node).
RECURSIVE min_value_of(_)
min_value_of(node) ==
    IF node.left = None THEN node.value ELSE min_value_of(node.left)

\* std::mem::replace(&mut min_node.value, v) on the leftmost node.
RECURSIVE replace_min_value(_, _)
replace_min_value(node, v) ==
    IF node.left = None THEN [node EXCEPT !.value = v]
    ELSE [node EXCEPT !.left = replace_min_value(node.left, v)]

RECURSIVE remove_node(_, _)
\* remove_node as it would be without the balance_node calls of l. 501 and
\* 512.
remove_node_without_balance(node, v) ==
    IF node = None
    THEN [tree |-> None, ok |-> FALSE]
    ELSE IF v < node.value
    THEN LET sub == remove_node(node.left, v)
             n1 == [node EXCEPT !.left = sub.tree]
         IN IF sub.ok
            THEN [tree |-> update_height(n1), ok |-> TRUE]
            ELSE [tree |-> n1, ok |-> FALSE]
    ELSE IF v > node.value
    THEN LET sub == remove_node(node.right, v)
             n1 == [node EXCEPT !.right = sub.tree]
         IN IF sub.ok
            THEN [tree |-> update_height(n1), ok |-> TRUE]
            ELSE [tree |-> n1, ok |-> FALSE]
    ELSE IF node.left = None /\ node.right = None
    THEN [tree |-> None, ok |-> TRUE]
    ELSE IF node.right = None
    THEN [tree |-> node.left, ok |-> TRUE]
    ELSE IF node.left = None
    THEN [tree |-> node.right, ok |-> TRUE]
    ELSE LET min_value == min_value_of(node.right)
             min_right == replace_min_value(node.right, node.value)
             sub == remove_node(min_right, min_value)
         IN [tree |-> [node EXCEPT !.value = min_value, !.right = sub.tree],
             ok |-> TRUE]

\* remove_node (l. 490-541)
remove_node(node, v) ==
    IF node = None
    THEN [tree |-> None, ok |-> FALSE]
    ELSE IF v < node.value
    THEN LET sub == remove_node(node.left, v)
             n1 == [node EXCEPT !.left = sub.tree]
         IN IF sub.ok
            THEN [tree |-> balance_node(update_height(n1)), ok |-> TRUE]
            ELSE [tree |-> n1, ok |-> FALSE]
    ELSE IF v > node.value
    THEN LET sub == remove_node(node.right, v)
             n1 == [node EXCEPT !.right = sub.tree]
         IN IF sub.ok
            THEN [tree |-> balance_node(update_height(n1)), ok |-> TRUE]
            ELSE [tree |-> n1, ok |-> FALSE]
    ELSE IF node.left = None /\ node.right = None
    THEN [tree |-> None, ok |-> TRUE]
    ELSE IF node.right = None
    THEN [tree |-> node.left, ok |-> TRUE]
    ELSE IF node.left = None
    THEN [tree |-> node.right, ok |-> TRUE]
    ELSE \* two children: the node takes the value of the leftmost node of
         \* its right subtree, that node takes the node's value, and the
         \* node's NEW value is then searched for in the right subtree; the
         \* result of that call is dropped and the function returns true
         \* without updating the node's height or rebalancing it.
         LET min_value == min_value_of(node.right)
             min_right == replace_min_value(node.right, node.value)
             sub == remove_node(min_right, min_value)
         IN [tree |-> [node EXCEPT !.value = min_value, !.right = sub.tree],
             ok |-> TRUE]

RECURSIVE inorder_recursive(_)
inorder_recursive(node) ==
    IF node = None THEN <<>>
    ELSE inorder_recursive(node.left) \o <<node.value>>
             \o inorder_recursive(node.right)

inorder_traversal == inorder_recursive(root)

RECURSIVE NodeCount(_)
NodeCount(node) ==
    IF node = None THEN 0
    ELSE 1 + NodeCount(node.left) + NodeCount(node.right)

\* The height of a subtree computed from its shape, not from the cache.
RECURSIVE TrueHeight(_)
TrueHeight(node) ==
    IF node = None THEN 0
    ELSE 1 + Max(TrueHeight(node.left), TrueHeight(node.right))

\* The set of all nodes (subtrees) of a tree.
RECURSIVE Subtrees(_)
Subtrees(node) ==
    IF node = None THEN {}
    ELSE {node} \cup Subtrees(node.left) \cup Subtrees(node.right)

SeqToSet(s) == {s[i] : i \in 1 .. Len(s)}

StrictlyAscending(s) == \A i \in 1 .. Len(s) - 1 : s[i] < s[i + 1]

NoCall == [op |-> "none", arg |-> 0, ok |-> FALSE, pre_root |-> None,
           pre_size |-> 0]

\* BST::new (l. 422-427)
BST_new ==
    /\ root = None
    /\ bst_size = 0
    /\ bst_last = NoCall
    /\ bst_panic = FALSE
    /\ demo = [inserted |-> 0, removed |-> 0]

InitBST ==
    /\ BST_new
    /\ LockFreeQueue_new("none")
    /\ FastVec_new
    /\ overflow_checks \in BOOLEAN
    /\ weak_cas_fails = FALSE

\* BST::insert (l. 429-434). `self.size += 1` cannot overflow here: the
\* counter is never more than a few steps away from 0.
BST_insert(v) ==
    /\ ~bst_panic
    /\ LET r == insert_node(root, v)
       IN /\ root' = r.tree
          /\ bst_last' = [op |-> "insert", arg |-> v, ok |-> r.ok,
                          pre_root |-> root, pre_size |-> bst_size]
          /\ bst_size' = IF r.ok THEN wrapping_add(bst_size, 1) ELSE bst_size
          /\ UNCHANGED bst_panic

\* BST::remove (l. 482-488). `self.size -= 1` at 0 panics in a build with
\* overflow checks (after remove_node has changed the tree) and wraps to
\* usize::MAX in one without.
BST_remove(v) ==
    /\ ~bst_panic
    /\ LET r == remove_node(root, v)
       IN /\ root' = r.tree
          /\ bst_last' = [op |-> "remove", arg |-> v, ok |-> r.ok,
                          pre_root |-> root, pre_size |-> bst_size]
          /\ IF r.ok /\ sub_overflows(bst_size, 1) /\ overflow_checks
             THEN bst_panic' = TRUE /\ bst_size' = bst_size
             ELSE /\ bst_panic' = FALSE
                  /\ bst_size' = IF r.ok THEN wrapping_sub(bst_size, 1)
                                 ELSE bst_size

\* BST::contains (l. 467-469): reads only.
BST_contains(v) ==
    /\ ~bst_panic
    /\ bst_last' = [op |-> "contains", arg |-> v, ok |-> search_node(root, v),
                    pre_root |-> root, pre_size |-> bst_size]
    /\ UNCHANGED <<root, bst_size, bst_panic>>

BstFrame == UNCHANGED <<queueVars, vecVars, buildVars>>

NextBST ==
    \/ \E v \in Values :
          /\ NodeCount(root) < MaxNodes
          /\ BST_insert(v)
          /\ UNCHANGED demo /\ BstFrame
    \/ \E v \in Values :
          /\ bst_size > -MaxWrap
          /\ BST_remove(v)
          /\ UNCHANGED demo /\ BstFrame
    \/ \E v \in Values : BST_contains(v) /\ UNCHANGED demo /\ BstFrame

SpecBST == InitBST /\ [][NextBST]_vars

\* Bounds of the specifications without the two-children removal: values
\* from 1..MaxInsertVal, until the tree holds MaxInsertNodes nodes.
MaxInsertVal == 6
MaxInsertNodes == 6

NextInsert ==
    \E v \in 1 .. MaxInsertVal :
        /\ NodeCount(root) < MaxInsertNodes
        /\ BST_insert(v)
        /\ UNCHANGED demo /\ BstFrame

SpecInsert == InitBST /\ [][NextInsert]_vars

\* The rotations as functions of the subtree in the slot.  The slot holds
\* any binary tree of at most MaxRotNodes nodes with the values lo..hi in
\* order, the cached height of the node in the slot being up to date or
\* stale, one too high (as the return at l. 534 leaves it); the rotations
\* are applied to it again and again.
MaxRotNodes == 5

RECURSIVE TreesOn(_, _)
TreesOn(lo, hi) ==
    IF lo > hi THEN {None}
    ELSE UNION {{update_height(BSTNode(v, l, r, 1)) :
                    l \in TreesOn(lo, v - 1), r \in TreesOn(v + 1, hi)} :
                v \in lo .. hi}

InitRotate ==
    /\ \E n \in 1 .. MaxRotNodes : \E tree \in TreesOn(1, n) :
          root \in {tree, [tree EXCEPT !.height = @ + 1]}
    /\ bst_size = 0
    /\ bst_last = NoCall
    /\ bst_panic = FALSE
    /\ demo = [inserted |-> 0, removed |-> 0]
    /\ LockFreeQueue_new("none")
    /\ FastVec_new
    /\ overflow_checks = FALSE
    /\ weak_cas_fails = FALSE

rotate_call(op, result) ==
    /\ root # None
    /\ root' = result
    /\ bst_last' = [op |-> op, arg |-> 0, ok |-> result # None,
                    pre_root |-> root, pre_size |-> bst_size]
    /\ UNCHANGED <<bst_size, bst_panic, demo>>

NextRotate ==
    \/ rotate_call("rotate_right", rotate_right(root)) /\ BstFrame
    \/ rotate_call("rotate_left", rotate_left(root)) /\ BstFrame

SpecRotate == InitRotate /\ [][NextRotate]_vars

\* remove_node(node, v) does not come to its two-children branch (l. 521):
\* v is not met on the way down, or is met at a node with at most one child.
RECURSIVE splices(_, _)
splices(node, v) ==
    IF node = None THEN TRUE
    ELSE IF v < node.value THEN splices(node.left, v)
    ELSE IF v > node.value THEN splices(node.right, v)
    ELSE node.left = None \/ node.right = None

\* Inserts, and the removes that splice.
NextSplice ==
    \/ \E v \in 1 .. MaxInsertVal :
          /\ NodeCount(root) < MaxInsertNodes
          /\ BST_insert(v)
          /\ UNCHANGED demo /\ BstFrame
    \/ \E v \in 1 .. MaxInsertVal :
          /\ splices(root, v)
          /\ BST_remove(v)
          /\ UNCHANGED demo /\ BstFrame

SpecSplice == InitBST /\ [][NextSplice]_vars

(***************************************************************************)
(* FastVec: the specification                                              *)
(***************************************************************************)
\* What a call on the buffer leaves alone, and what its destructor does.
VecFrame == UNCHANGED <<fv_dropped, bstVars, queueVars, buildVars>>
DropFrame == UNCHANGED <<bstVars, queueVars, buildVars>>

InitVec ==
    /\ \E n \in 0 .. MaxInitCap : FastVec_with_capacity(n)
    /\ BST_new
    /\ LockFreeQueue_new("none")
    /\ overflow_checks = FALSE
    /\ weak_cas_fails = FALSE

\* get is called with every index below the capacity and one beyond.
NextVec ==
    \/ \E v \in Elems :
          Alive /\ Len(fv_log) < MaxOps /\ FastVec_push(v) /\ VecFrame
    \/ Alive /\ Len(fv_log) < MaxOps /\ FastVec_pop /\ VecFrame
    \/ \E i \in 0 .. fv_cap : Alive /\ FastVec_get(i) /\ VecFrame
    \/ Alive /\ FastVec_drop /\ DropFrame

SpecVec == InitVec /\ [][NextVec]_vars

\* A buffer made by new(), as in run_data_structures_demo, part 1
\* (l. 794-805), which pushes 0, 1, ..., 9 and then pops until None: here
\* the k-th push pushes k (0 being None), pops come at any time, and at
\* most MaxNewOps push and pop calls are made in one run.
MaxNewOps == 12

PushCount == Cardinality({i \in 1 .. Len(fv_log) : fv_log[i].op = "push"})

InitVecNew ==
    /\ FastVec_new
    /\ BST_new
    /\ LockFreeQueue_new("none")
    /\ overflow_checks = FALSE
    /\ weak_cas_fails = FALSE

NextVecNew ==
    \/ /\ Alive /\ Len(fv_log) < MaxNewOps
       /\ FastVec_push(PushCount + 1) /\ VecFrame
    \/ Alive /\ Len(fv_log) < MaxNewOps /\ FastVec_pop /\ VecFrame
    \/ Alive /\ FastVec_drop /\ DropFrame

SpecVecNew == InitVecNew /\ [][NextVecNew]_vars

(***************************************************************************)
(* run_data_structures_demo, part 3 (l. 820-835): the seven inserts in the *)
(* order of the source, then one remove, with contains() called at will    *)
(* once the inserts are done.  The source removes 30 and asks for 40 and   *)
(* 90; the removed value and the values asked for range over DemoProbes.   *)
(***************************************************************************)
DemoValues == <<50, 30, 70, 20, 40, 60, 80>>
DemoProbes == {10, 20, 30, 40, 50, 60, 70, 80, 90}

DemoInsert ==
    /\ demo.inserted < Len(DemoValues)
    /\ BST_insert(DemoValues[demo.inserted + 1])
    /\ demo' = [demo EXCEPT !.inserted = demo.inserted + 1]
    /\ BstFrame

DemoRemove ==
    /\ demo.inserted = Len(DemoValues)
    /\ demo.removed = 0
    /\ \E v \in DemoProbes :
          BST_remove(v) /\ demo' = [demo EXCEPT !.removed = v]
    /\ BstFrame

DemoContains ==
    /\ demo.inserted = Len(DemoValues)
    /\ \E v \in DemoProbes : BST_contains(v)
    /\ UNCHANGED demo
    /\ BstFrame

NextDemo == DemoInsert \/ DemoRemove \/ DemoContains

SpecDemo == InitBST /\ [][NextDemo]_vars

(***************************************************************************)
(* LockFreeQueue: the specifications                                       *)
(*   SpecQueue  any thread calls enqueue and dequeue                       *)
(*   SpecSPSC   thread 1 only enqueues, thread 2 only dequeues             *)
(*   SpecDrain  the threads enqueue; once no call is in progress thread 1  *)
(*              dequeues, and nothing is enqueued any more                 *)
(***************************************************************************)
InitQueueIn(mode) ==
    /\ LockFreeQueue_new(mode)
    /\ BST_new
    /\ FastVec_new
    /\ overflow_checks = FALSE
    /\ weak_cas_fails \in BOOLEAN

InitQueue == InitQueueIn("mpmc")
InitSPSC == InitQueueIn("spsc")
InitDrain == InitQueueIn("drain")

SpecQueue == InitQueue /\ [][NextQueue]_vars
SpecSPSC == InitSPSC /\ [][NextQueue]_vars
SpecDrain == InitDrain /\ [][NextQueue]_vars

\* Fair scheduling of the threads: a thread that can take a step of its
\* call (or begin a call) eventually takes one.  compare_exchange_weak never
\* fails spuriously here, so that no retry is forced by the scheduler.
InitQueueFair ==
    /\ LockFreeQueue_new("mpmc")
    /\ BST_new
    /\ FastVec_new
    /\ overflow_checks = FALSE
    /\ weak_cas_fails = FALSE

ThreadStep(t) == NextQueue /\ thr'[t] # thr[t]

SpecQueueFair ==
    InitQueueFair /\ [][NextQueue]_vars /\ \A t \in Threads : WF_vars(ThreadStep(t))

\* The threads run as in SpecQueueFair until one of them calls a dequeue
\* that runs alone; the other threads stay where they are, in whatever
\* call they were.
NextSolo ==
    \/ NextQueue
    \/ \E t \in Threads : MayDequeue(t) /\ dequeue_call_alone(t) /\ QueueStep

SoloStep(t) == NextSolo /\ thr'[t] # thr[t]

SpecSolo ==
    InitQueueFair /\ [][NextSolo]_vars /\ \A t \in Threads : WF_vars(SoloStep(t))

(***************************************************************************)
(* LockFreeQueue: the properties                                           *)
(***************************************************************************)

\* The values handed out so far, in the order the dequeue calls returned.
ReturnedValues ==
    LET some == SelectSeq(q_ret, LAMBDA r : r.val # NoData)
    IN [i \in 1 .. Len(some) |-> some[i].val]

\* How many times v occurs in the sequence s.
Occurrences(s, v) == Cardinality({i \in 1 .. Len(s) : s[i] = v})

\* Every payload enqueued so far occurs exactly once in s, and nothing else
\* occurs in s.
ExactlyTheEnqueued(s) ==
    /\ \A v \in 1 .. q_calls.enq : Occurrences(s, v) = 1
    /\ \A i \in 1 .. Len(s) : s[i] \in 1 .. q_calls.enq

\* C1: once every enqueue and dequeue call has completed and the queue has
\* been drained, the values returned by dequeue are exactly the values
\* enqueued, each once.
CE_C1_NoLossNoDuplication ==
    (AllIdle /\ LogicallyEmpty) => ExactlyTheEnqueued(ReturnedValues)

\* C2: dequeue returns no value only if the queue was logically empty at
\* some point during the call, and a dequeue whose head CAS succeeded
\* returns the payload of the node that became the head.
CE_C2_DequeueResult ==
    \A i \in 1 .. Len(q_ret) :
        /\ q_ret[i].val = NoData => q_ret[i].saw_empty
        /\ q_ret[i].how = "cas" => q_ret[i].val = q_ret[i].new_head_val

\* C8: no thread reads or writes a node that a dequeue has released.
CE_C8_NoUseAfterRelease == ~q_ub.uaf

\* C9: with one producer and one consumer the values returned by dequeue
\* are, in order, a prefix of the values enqueued (1, 2, ...).
CE_C9_SpscOrder ==
    \A i \in 1 .. Len(ReturnedValues) : ReturnedValues[i] = i

\* C9 on a target where compare_exchange_weak never fails spuriously: the
\* order is kept (the dequeue's take before the CAS is then never repeated
\* by the only consumer).
C9_SpscOrder_StrongCas == ~weak_cas_fails => CE_C9_SpscOrder

\* C10: producers first, then sequential draining until dequeue returns no
\* value: the values returned before that are exactly the values enqueued,
\* each once.
CE_C10_DrainYieldsAll ==
    LET stops == {i \in 1 .. Len(q_ret) : q_ret[i].val = NoData}
    IN stops # {} =>
         LET first == CHOOSE i \in stops : \A j \in stops : i <= j
         IN ExactlyTheEnqueued([i \in 1 .. first - 1 |-> q_ret[i].val])

\* C10 on a target where compare_exchange_weak never fails spuriously: the
\* draining hands out every value once.
C10_DrainYieldsAll_StrongCas == ~weak_cas_fails => CE_C10_DrainYieldsAll

\* The values handed out, in the order the head CAS of their dequeue
\* succeeded.
AdvancedValues ==
    LET some == SelectSeq(q_order.advanced, LAMBDA d : d # NoData)
    IN [i \in 1 .. Len(some) |-> some[i]]

\* The link CAS of payload a succeeded before the link CAS of payload b.
LinkedBefore(a, b) ==
    \E i, j \in 1 .. Len(q_order.linked) :
        i < j /\ q_order.linked[i] = a /\ q_order.linked[j] = b

\* C11: values are handed out in link order: if a was linked before b, the
\* head-advance that returns b does not precede the head-advance that
\* returns a.
CE_C11_LinkOrder ==
    \A i, j \in 1 .. Len(AdvancedValues) :
        i < j => ~LinkedBefore(AdvancedValues[j], AdvancedValues[i])

\* The number of enqueue and dequeue calls that have returned.
Completed ==
    q_calls.enq + q_calls.deq
        - Cardinality({t \in Threads : thr[t].pc # "idle"})

\* C12: lock-freedom: whenever a call is in progress, under fair scheduling
\* of the threads some call in progress eventually completes (in a run in
\* which the process does not crash).
CE_C12_LockFree ==
    \/ <>q_ub.crashed
    \/ \A n \in 0 .. MaxEnq + MaxDeq :
          (~AllIdle /\ Completed = n) ~> (Completed > n)

\* The cells reached from cell c by next-links, c included, in at most n
\* steps.
RECURSIVE Reach(_, _)
Reach(c, n) ==
    IF c = Null \/ n = 0 THEN {} ELSE {c} \cup Reach(heap[c].next, n - 1)

\* The nodes linked after the node head points to.
LinkedAfterHead == Reach(heap[q_head].next, NumCells)

\* C13: head points to a node that is not released, and that node holds no
\* payload.
CE_C13_Sentinel == q_head \in live /\ heap[q_head].data = NoData

\* A dequeue has taken the payload of cell c and its head CAS is still to
\* come.
TakenInAttempt(c) ==
    \E t \in Threads : thr[t].pc = "d_cas_head" /\ thr[t].next = c

\* C14: every node linked after head holds its payload (a node whose
\* dequeue is between its take and its head CAS apart), and no dequeue
\* attempt whose head CAS failed has changed a payload.
CE_C14_PayloadsKept ==
    /\ \A c \in LinkedAfterHead : heap[c].data # NoData \/ TakenInAttempt(c)
    /\ q_order.dropped = {}

\* C15: is_empty() is true exactly when head == tail and head.next is
\* null, in every state (also with calls in flight).
CE_C15_IsEmpty == LockFreeQueue_is_empty <=> LogicallyEmpty

\* C16: when no call is in progress, size() is the number of nodes linked
\* after head.
CE_C16_SizeQuiescent ==
    AllIdle => LockFreeQueue_size = Cardinality(LinkedAfterHead)

\* C29: while only producers run, every step that changes tail moves it
\* to the next-link successor of the node it pointed to.
CE_C29_TailForward ==
    [][(q_calls.deq = 0 /\ q_tail' # q_tail) => heap[q_tail].next = q_tail']_vars

\* C30: tail points to head's node or to a node reached from it by
\* next-links, and to a node that is not released.
CE_C30_TailOnChain ==
    /\ q_tail \in Reach(q_head, NumCells)
    /\ q_tail \in live

\* C31: a dequeue call that runs alone returns (in a run in which no
\* released node is accessed and compare_exchange_weak does not fail
\* spuriously).
CE_C31_DequeueAloneReturns ==
    \/ <>q_ub.uaf
    \/ \A t \in Threads :
          (q_calls.alone = t /\ thr[t].pc \in DequeuePcs) ~> (thr[t].pc = "idle")

\* The payloads the nodes from cell c on were created with, following
\* next-links for at most n steps.
RECURSIVE ChainValues(_, _)
ChainValues(c, n) ==
    IF c = Null \/ n = 0 THEN <<>>
    ELSE <<heap[c].enq_val>> \o ChainValues(heap[c].next, n - 1)

\* The nodes after head are the nodes linked so far without those head has
\* been moved over, each once, in the order of linking.
ChainIsList ==
    ChainValues(heap[q_head].next, NumCells + 1) =
        SubSeq(q_order.linked, Len(q_order.advanced) + 1, Len(q_order.linked))

\* A step changes the next-link of a cell (other than by making a new node
\* in it) only from null, only in the last node of the chain from head, and
\* only to a node that is not on the chain.
LinkOnce ==
    \A c \in NodeIds :
        (heap'[c].next # heap[c].next /\ ~(c \notin live /\ c \in live'))
            => /\ heap[c].next = Null
               /\ c \in live
               /\ c \in Reach(q_head, NumCells)
               /\ heap'[c].next \in live \ Reach(q_head, NumCells)

\* A step changes head only to the next-link of the node it pointed to.
HeadToNext == q_head' # q_head => q_head' = heap[q_head].next

\* C32: next-links are set once, in the last node of the chain; head moves
\* only to its node's successor; the chain from head holds every node
\* enqueued and not dequeued once.
CE_C32_ChainIntegrity ==
    [][LinkOnce /\ HeadToNext /\ ChainIsList']_vars

\* C33: the size counter is never decremented at 0: in every state it is
\* a value the increments minus the decrements give without wrapping.
CE_C33_SizeNeverWraps == LockFreeQueue_size >= 0

(***************************************************************************)
(* BST: the properties                                                     *)
(***************************************************************************)

ValueSet(node) == SeqToSet(inorder_recursive(node))

\* The balance factor of a node from the true heights of its subtrees.
TrueBalance(node) == TrueHeight(node.left) - TrueHeight(node.right)

\* C3: after any sequence of insert and remove calls inorder_traversal() is
\* strictly ascending.
CE_C3_InorderAscending ==
    ~bst_panic => StrictlyAscending(inorder_traversal)

\* C4: after any sequence of insert and remove calls every node's balance
\* factor, computed from the true subtree heights, is in {-1, 0, 1}.
CE_C4_AvlBalanced ==
    \A n \in Subtrees(root) : TrueBalance(n) \in {-1, 0, 1}

\* C5: remove(v) on a tree that contains v returns true and leaves exactly
\* the previous set of values without v.
CE_C5_RemoveDeletes ==
    (/\ ~bst_panic
     /\ bst_last.op = "remove"
     /\ bst_last.arg \in ValueSet(bst_last.pre_root))
        => /\ bst_last.ok
           /\ ValueSet(root) = ValueSet(bst_last.pre_root) \ {bst_last.arg}

\* C7: size() equals the length of inorder_traversal() and is_empty() is
\* true exactly when that length is 0.
CE_C7_SizeIsCount ==
    ~bst_panic => /\ bst_size = Len(inorder_traversal)
                  /\ (bst_size = 0) <=> (Len(inorder_traversal) = 0)

\* C6: inserting 50,30,70,20,40,60,80 and then remove(30) leaves
\* inorder_traversal() = [20,40,50,60,70,80], contains(40) true and
\* contains(90) false.
CE_C6_DemoScenario ==
    demo.removed = 30 =>
        /\ inorder_traversal = <<20, 40, 50, 60, 70, 80>>
        /\ search_node(root, 40)
        /\ ~search_node(root, 90)

\* C26: insert of a value that is already stored is rejected: the tree
\* (shape, values, cached heights) and size() are as before the call.
CE_C26_InsertPresent ==
    (/\ bst_last.op = "insert"
     /\ bst_last.arg \in ValueSet(bst_last.pre_root))
        => /\ ~bst_last.ok
           /\ root = bst_last.pre_root
           /\ bst_size = bst_last.pre_size

\* C27: remove of a value that is not stored returns false and leaves the
\* tree and size() as they were, and size() changes only in a remove that
\* takes its value out of the tree.
CE_C27_RemoveAbsent ==
    bst_last.op = "remove" =>
        /\ bst_last.arg \notin ValueSet(bst_last.pre_root)
              => /\ ~bst_last.ok
                 /\ root = bst_last.pre_root
                 /\ bst_size = bst_last.pre_size
        /\ bst_size # bst_last.pre_size
              => /\ bst_last.arg \in ValueSet(bst_last.pre_root)
                 /\ NodeCount(root) = NodeCount(bst_last.pre_root) - 1

\* C28: after every completed insert or remove the cached height of every
\* node is 1 + max of the cached heights of its children, 0 for an absent
\* child.
CE_C28_CachedHeights ==
    ~bst_panic =>
        \A n \in Subtrees(root) :
            n.height = 1 + Max(get_height(n.left), get_height(n.right))

\* For insert_node(node, v): for every node on the way down that is
\* rebalanced on the way back up, the branch balance_node takes there and
\* the two directions v went below it.
RECURSIVE InsertCases(_, _)
InsertCases(node, v) ==
    IF node = None THEN {}
    ELSE IF v = node.value THEN {}
    ELSE LET child == IF v < node.value THEN node.left ELSE node.right
             sub == insert_node(child, v)
             n1 == IF v < node.value THEN [node EXCEPT !.left = sub.tree]
                   ELSE [node EXCEPT !.right = sub.tree]
             here == [case |-> balance_case(update_height(n1)),
                      first |-> IF v < node.value THEN "left" ELSE "right",
                      second |-> IF child = None THEN "none"
                                 ELSE IF v < child.value THEN "left"
                                 ELSE IF v > child.value THEN "right"
                                 ELSE "none"]
         IN InsertCases(child, v) \cup (IF sub.ok THEN {here} ELSE {})

\* The rotation that goes with the two directions of the descent.
RotationFor(first, second) ==
    IF first = "left" /\ second = "left" THEN "rotate_right"
    ELSE IF first = "left" /\ second = "right" THEN "rotate_left_then_right"
    ELSE IF first = "right" /\ second = "right" THEN "rotate_left"
    ELSE IF first = "right" /\ second = "left" THEN "rotate_right_then_left"
    ELSE "none"

\* C35: with inserts only, the in-order sequence is strictly ascending,
\* every balance factor is in {-1, 0, 1}, every cached height is the true
\* height, the insert adds its value and loses none, and every node that
\* is rotated takes the single rotation in the left-left and right-right
\* cases and the double rotation in the left-right and right-left cases.
C35_InsertsKeepAvl ==
    /\ StrictlyAscending(inorder_traversal)
    /\ \A n \in Subtrees(root) :
          /\ TrueBalance(n) \in {-1, 0, 1}
          /\ n.height = TrueHeight(n)
    /\ bst_last.op = "insert" =>
          /\ ValueSet(root) = ValueSet(bst_last.pre_root) \cup {bst_last.arg}
          /\ \A c \in InsertCases(bst_last.pre_root, bst_last.arg) :
                c.case # "none" => c.case = RotationFor(c.first, c.second)

\* C35, witness: an insert into a tree of at least four nodes made a node
\* below the root take a double rotation.
W_C35_InsertsKeepAvl ==
    /\ bst_last.op = "insert"
    /\ bst_last.ok
    /\ NodeCount(root) >= 5
    /\ root.value = bst_last.pre_root.value
    /\ \E c \in InsertCases(bst_last.pre_root, bst_last.arg) :
          c.case \in {"rotate_left_then_right", "rotate_right_then_left"}

\* C36: with inserts and removes of values that sit at a node with at
\* most one child, the in-order sequence is strictly ascending, every
\* balance factor is in {-1, 0, 1} and every cached height is the true
\* height, at every node; the remove takes out its value and no other, and
\* size() follows.
C36_SpliceKeepsAvl ==
    /\ ~bst_panic
    /\ StrictlyAscending(inorder_traversal)
    /\ \A n \in Subtrees(root) :
          /\ TrueHeight(n.left) - TrueHeight(n.right) \in {-1, 0, 1}
          /\ n.height = 1 + Max(TrueHeight(n.left), TrueHeight(n.right))
    /\ bst_last.op = "remove" =>
          /\ bst_last.ok = (bst_last.arg \in ValueSet(bst_last.pre_root))
          /\ ValueSet(root) = ValueSet(bst_last.pre_root) \ {bst_last.arg}
    /\ bst_size = NodeCount(root)

\* C36, witness: the remove of a value below the root made the root take a
\* double rotation: the new root was a grandchild of the old one.
W_C36_SpliceKeepsAvl ==
    /\ bst_last.op = "remove"
    /\ bst_last.ok
    /\ bst_last.arg # bst_last.pre_root.value
    /\ root # None
    /\ root.value # bst_last.pre_root.value
    /\ \A c \in {bst_last.pre_root.left, bst_last.pre_root.right} :
          c # None => c.value # root.value
    /\ NodeCount(root) = 3

\* C37: rotate_right on a node with a left child and rotate_left on a
\* node with a right child keep the in-order sequence, move one subtree
\* (the inner grandchild) to the node that goes down and leave the other
\* two subtrees where they hang, untouched; the node that goes down and
\* the node that comes up have cached height 1 + max of their children's
\* cached heights.
C37_Rotations ==
    LET n == bst_last.pre_root
        HeightOk(x) ==
            x.height = 1 + Max(get_height(x.left), get_height(x.right))
    IN /\ (bst_last.op = "rotate_right" /\ n.left # None) =>
             /\ root # None
             /\ inorder_recursive(root) = inorder_recursive(n)
             /\ root.value = n.left.value
             /\ root.left = n.left.left
             /\ root.right # None
             /\ root.right.value = n.value
             /\ root.right.left = n.left.right
             /\ root.right.right = n.right
             /\ HeightOk(root.right)
             /\ HeightOk(root)
       /\ (bst_last.op = "rotate_left" /\ n.right # None) =>
             /\ root # None
             /\ inorder_recursive(root) = inorder_recursive(n)
             /\ root.value = n.right.value
             /\ root.right = n.right.right
             /\ root.left # None
             /\ root.left.value = n.value
             /\ root.left.right = n.right.left
             /\ root.left.left = n.left
             /\ HeightOk(root.left)
             /\ HeightOk(root)

\* C37, witness: rotate_right on a node whose cached height was one too
\* high, with three non-empty subtrees around the two nodes, lowered the
\* height of the node that went down.
W_C37_Rotations ==
    /\ bst_last.op = "rotate_right"
    /\ bst_last.pre_root.left # None
    /\ bst_last.pre_root.right # None
    /\ bst_last.pre_root.left.left # None
    /\ bst_last.pre_root.left.right # None
    /\ root.right.height < bst_last.pre_root.height - 1

\* C38: contains(v) returns true exactly when v is in inorder_traversal(),
\* and changes neither the tree nor size().
CE_C38_ContainsIsMembership ==
    bst_last.op = "contains" =>
        /\ bst_last.ok <=> bst_last.arg \in SeqToSet(inorder_traversal)
        /\ root = bst_last.pre_root
        /\ bst_size = bst_last.pre_size

\* C39: no call loses a node to a rotation on a node without the required
\* child: the number of nodes goes up by one in an insert that returns
\* true, down by one in a remove that returns true, and is unchanged by
\* every other call.
CE_C39_NodeCountSteps ==
    NodeCount(root) =
        NodeCount(bst_last.pre_root)
            + (IF bst_last.op = "insert" /\ bst_last.ok THEN 1 ELSE 0)
            - (IF bst_last.op = "remove" /\ bst_last.ok THEN 1 ELSE 0)

(***************************************************************************)
(* FastVec: the properties                                                 *)
(***************************************************************************)

\* The number of push calls the history begins with.
LeadingPushes ==
    Cardinality({i \in 1 .. Len(fv_log) :
                    \A j \in 1 .. i : fv_log[j].op = "push"})

\* The history is n pushes followed by pops only.
PushesThenPops ==
    \A i \in LeadingPushes + 1 .. Len(fv_log) : fv_log[i].op = "pop"

\* C17: after n pushes, the j-th pop returns the value of push n - j + 1
\* (reverse push order), and every pop after the n-th returns None.
C17_Lifo ==
    PushesThenPops =>
        \A j \in 1 .. Len(fv_log) - LeadingPushes :
            fv_log[LeadingPushes + j].val =
                IF j <= LeadingPushes THEN fv_log[LeadingPushes - j + 1].val
                ELSE NoElem

\* C17, witness: two pushes of different values, the second into a block
\* that had to grow, then three pops: the last finds the buffer empty.
W_C17_Lifo ==
    /\ PushesThenPops
    /\ LeadingPushes = 2
    /\ Len(fv_log) = 5
    /\ fv_log[1].val # fv_log[2].val
    /\ fv_heap.freed # {}

\* C18: 0 <= len <= capacity in every state (after new, with_capacity and
\* every push, pop and get).
C18_LenWithinCapacity == 0 <= fv_len /\ fv_len <= fv_cap

\* C18, witness: a push that grew the block and filled it.
W_C18_LenWithinCapacity ==
    /\ fv_last.op = "push"
    /\ ~fv_last.panicked
    /\ fv_cap > fv_last.pre_cap
    /\ fv_last.pre_cap > 0
    /\ fv_len = fv_cap

\* C19: no step lowers the capacity, and a pop leaves it unchanged.
C19_CapacityNeverDecreases ==
    [][/\ fv_cap' >= fv_cap
       /\ fv_last'.op = "pop" => fv_cap' = fv_cap]_vars

\* C19, witness: a pop has emptied a buffer that keeps its block.
W_C19_CapacityNeverDecreases ==
    /\ fv_last.op = "pop"
    /\ fv_last.pre_len = 1
    /\ fv_len = 0
    /\ fv_cap > 0
    /\ fv_cap = fv_last.pre_cap

\* C20 as stated: a push at len == capacity sets the capacity to
\* max(4, 2 * capacity), for every buffer; a push at len < capacity leaves
\* the capacity unchanged.
CE_C20_GrowthMax4 ==
    (fv_last.op = "push" /\ ~fv_last.panicked) =>
        fv_cap = IF fv_last.pre_len = fv_last.pre_cap
                 THEN Max(4, 2 * fv_last.pre_cap)
                 ELSE fv_last.pre_cap

\* C20 amended: a push at len == capacity sets the capacity to 4 if it was
\* 0 and to 2 * capacity otherwise; a push at len < capacity leaves the
\* capacity unchanged.
C20_GrowthDoubles ==
    (fv_last.op = "push" /\ ~fv_last.panicked) =>
        fv_cap = IF fv_last.pre_len # fv_last.pre_cap THEN fv_last.pre_cap
                 ELSE IF fv_last.pre_cap = 0 THEN 4
                 ELSE 2 * fv_last.pre_cap

\* C20, witness: a buffer made by with_capacity(1) was full and a push
\* took its capacity from 1 to 2.
W_C20_GrowthDoubles ==
    /\ fv_last.op = "push"
    /\ ~fv_last.panicked
    /\ fv_last.pre_len = 1
    /\ fv_last.pre_cap = 1
    /\ fv_cap = 2

\* The length of the buffer after the first k calls of the history.
LenAfter(k) ==
    Cardinality({i \in 1 .. k : fv_log[i].op = "push"})
        - Cardinality({i \in 1 .. k :
                          fv_log[i].op = "pop" /\ fv_log[i].val # NoElem})

\* The largest length the buffer has had so far.
MaxLenReached ==
    CHOOSE m \in 0 .. Len(fv_log) :
        /\ \E k \in 0 .. Len(fv_log) : LenAfter(k) = m
        /\ \A k \in 0 .. Len(fv_log) : LenAfter(k) <= m

\* The smallest of c, 2c, 4c, ... that is >= m.
RECURSIVE DoubleUpTo(_, _)
DoubleUpTo(c, m) == IF c >= m THEN c ELSE DoubleUpTo(2 * c, m)

\* C21: for a buffer made by new(), the capacity is 0 before the first
\* push and afterwards the smallest of 4, 8, 16, ... that is >= the largest
\* length reached so far; it is 16 after 10 pushes.
C21_CapacityOfNew ==
    /\ fv_cap = IF MaxLenReached = 0 THEN 0 ELSE DoubleUpTo(4, MaxLenReached)
    /\ (LeadingPushes = 10 /\ Len(fv_log) = 10) => fv_cap = 16

\* C21, witness: ten pushes took the capacity to 16, and two pops left it
\* there.
W_C21_CapacityOfNew ==
    /\ LeadingPushes = 10
    /\ Len(fv_log) = 12
    /\ fv_len = 8
    /\ fv_cap = 16
    /\ fv_heap.allocs = 3

\* C22: pop on an empty buffer returns None without a panic and leaves
\* len (0), capacity and the block as they were; pop on a non-empty buffer
\* lowers len by exactly 1 and returns the element that was at index
\* len - 1.
C22_Pop ==
    fv_last.op = "pop" =>
        /\ ~fv_last.panicked
        /\ IF fv_last.pre_len = 0
           THEN /\ fv_last.res = NoElem
                /\ fv_len = 0
                /\ fv_cap = fv_last.pre_cap
                /\ fv_ptr = fv_last.pre_ptr
                /\ fv_buf = fv_last.pre_buf
           ELSE /\ fv_len = fv_last.pre_len - 1
                /\ fv_last.res = fv_last.pre_buf[fv_last.pre_len]

\* C22, witness: a pop took the last element out, and the next pop found
\* the buffer empty, its block still there.
W_C22_Pop ==
    /\ fv_last.op = "pop"
    /\ fv_last.pre_len = 0
    /\ fv_last.pre_cap > 0
    /\ Len(fv_log) >= 3
    /\ fv_log[Len(fv_log) - 1].op = "pop"
    /\ fv_log[Len(fv_log) - 1].val \in Elems
    /\ fv_log[Len(fv_log)].val = NoElem

\* C23: get(index) returns the element at index when index < len and None
\* when index >= len, and leaves len, capacity, the block and every slot
\* as they were.
C23_Get ==
    fv_last.op = "get" =>
        /\ fv_last.res = IF fv_last.arg < fv_last.pre_len
                         THEN fv_last.pre_buf[fv_last.arg + 1]
                         ELSE NoElem
        /\ ~fv_last.panicked
        /\ fv_len = fv_last.pre_len
        /\ fv_cap = fv_last.pre_cap
        /\ fv_ptr = fv_last.pre_ptr
        /\ fv_buf = fv_last.pre_buf

\* C23, witness: get at an index between len and capacity, where a popped
\* element still lies in the slot, returned None.
W_C23_Get ==
    /\ fv_last.op = "get"
    /\ fv_last.arg >= fv_last.pre_len
    /\ fv_last.arg < fv_last.pre_cap
    /\ fv_last.pre_buf[fv_last.arg + 1] \in Elems
    /\ fv_last.res = NoElem

\* C25: a push whose allocation of the new block failed has left len,
\* capacity, the block in use and every slot as they were before the push.
C25_AllocFailureLeavesBuffer ==
    (fv_last.op = "push" /\ fv_last.panicked) =>
        /\ fv_len = fv_last.pre_len
        /\ fv_cap = fv_last.pre_cap
        /\ fv_ptr = fv_last.pre_ptr
        /\ fv_buf = fv_last.pre_buf
        /\ fv_ptr \notin fv_heap.freed

\* C25, witness: the allocation failed in a push on a full buffer that
\* holds elements.
W_C25_AllocFailureLeavesBuffer ==
    /\ fv_last.op = "push"
    /\ fv_last.panicked
    /\ fv_last.pre_len = fv_last.pre_cap
    /\ fv_last.pre_len > 0

\* How many push calls of the history pushed v, and how many pop calls
\* returned it.
Pushed(v) ==
    Cardinality({i \in 1 .. Len(fv_log) :
                    fv_log[i].op = "push" /\ fv_log[i].val = v})
Popped(v) ==
    Cardinality({i \in 1 .. Len(fv_log) :
                    fv_log[i].op = "pop" /\ fv_log[i].val = v})

\* C24: once the buffer is dropped, the destructor has destroyed exactly
\* the slots 0..len-1, every pushed element was either handed out by a pop
\* or destroyed by the destructor, once; every block allocated has been
\* released once, and a buffer of capacity 0 has released none.
C24_DropReleasesOnce ==
    fv_last.op = "drop" =>
        /\ fv_dropped = SubSeq(fv_last.pre_buf, 1, fv_last.pre_len)
        /\ \A v \in Elems :
              Pushed(v) = Popped(v) + Occurrences(fv_dropped, v)
        /\ \A i \in 1 .. Len(fv_dropped) : fv_dropped[i] \in Elems
        /\ fv_heap.freed = 1 .. fv_heap.allocs
        /\ ~fv_heap.double_free
        /\ fv_last.pre_cap = 0 => fv_heap.freed = {}

\* C24, witness: a buffer that grew, had an element popped and still
\* held one was dropped.
W_C24_DropReleasesOnce ==
    /\ fv_last.op = "drop"
    /\ fv_heap.allocs >= 2
    /\ \E v \in Elems : Popped(v) > 0
    /\ Len(fv_dropped) > 0
    /\ fv_last.pre_len < fv_last.pre_cap

\* C34: a push that grows the buffer leaves every element where it was
\* (get(i) gives what it gave before for every i below the old length), has
\* the pushed value at the old length, and has given the old block back
\* after the elements were read from it and once.
C34_GrowthKeepsContents ==
    (/\ fv_last.op = "push"
     /\ ~fv_last.panicked
     /\ fv_last.pre_len = fv_last.pre_cap)
        => /\ fv_len = fv_last.pre_len + 1
           /\ \A i \in 0 .. fv_last.pre_len - 1 :
                 /\ i < fv_len
                 /\ fv_buf[i + 1] = fv_last.pre_buf[i + 1]
                 /\ fv_buf[i + 1] \in Elems
           /\ fv_buf[fv_last.pre_len + 1] = fv_last.arg
           /\ fv_ptr # fv_last.pre_ptr
           /\ fv_ptr \notin fv_heap.freed
           /\ fv_last.pre_cap > 0 => fv_last.pre_ptr \in fv_heap.freed
           /\ ~fv_heap.double_free

\* C34, witness: a full block of two different elements grew in a push.
W_C34_GrowthKeepsContents ==
    /\ fv_last.op = "push"
    /\ ~fv_last.panicked
    /\ fv_last.pre_len = 2
    /\ fv_last.pre_cap = 2
    /\ fv_last.pre_buf[1] # fv_last.pre_buf[2]
    /\ fv_cap = 4

=============================================================================
